---- MODULE Spec2Model ----
(***************************************************************************)
(* A model of clatd.c (464xlat CLAT daemon): the relay loop event_loop     *)
(* with read_packet, stop_loop and ipv6_address_changed; the interface     *)
(* configurator configure_interface with configure_tun_ip,                 *)
(* configure_clat_ipv6_address and configure_packet_socket; and the        *)
(* classifier program that configure_packet_socket builds; and the         *)
(* startup steps drop_root_but_keep_caps and open_sockets.                 *)
(*                                                                         *)
(* Four specifications share the variables:                                *)
(*   Spec        the relay loop and its environment (signal, descriptors,  *)
(*               clock, uplink address);                                   *)
(*   SpecConfig  one call of configure_interface, or of                    *)
(*               configure_clat_ipv6_address alone, step by step;          *)
(*   SpecFilter  the classifier program run on a packet.                   *)
(*   SpecStartup drop_root_but_keep_caps and open_sockets, system call by  *)
(*               system call.                                              *)
(***************************************************************************)
EXTENDS Integers, Sequences, FiniteSets, TLC

(***************************************************************************)
(* Program constants.  MAXMTU, INTERFACE_POLL_FREQUENCY and                *)
(* NO_TRAFFIC_INTERFACE_POLL_FREQUENCY are set in clatd.h; clatd.c only    *)
(* uses them, and nothing below depends on their values beyond             *)
(* MAXMTU >= 1280 and both frequencies being positive.                     *)
(***************************************************************************)
MTU_DELTA == 28
MAXMTU == 65536
IPV6_MIN_MTU == 1280
TUN_PI_SIZE == 4
PACKETLEN == MAXMTU + TUN_PI_SIZE
ETH_P_IP == 2048
INTERFACE_POLL_FREQUENCY == 30
NO_TRAFFIC_INTERFACE_POLL_FREQUENCY == 90
MARK_UNSET == 0

(***************************************************************************)
(* Bounds of the model.                                                    *)
(***************************************************************************)
\* The clock stops advancing once it has reached MaxTime seconds.
MaxTime == 95

NoAddr == <<>>

(***************************************************************************)
(* IPv6 addresses are 16 bytes in network order.  P1 and P2 are two /64    *)
(* prefixes, IidA and IidB two interface identifiers.                      *)
(***************************************************************************)
P1 == <<32, 1, 13, 56, 0, 1, 0, 0>>
P2 == <<32, 1, 13, 56, 0, 2, 0, 0>>
IidA == <<0, 0, 0, 0, 0, 0, 4, 100>>
IidB == <<0, 0, 0, 0, 0, 0, 0, 1>>

\* the synthetic (clat) addresses a session may hold
ClatAddrs == {P1 \o IidA, P2 \o IidA}
\* what the address query on the uplink may return
UplinkIps == {NoAddr, P1 \o IidB, P2 \o IidB}

VARIABLES
  \* ---- the program's state
  running,              \* volatile sig_atomic_t running
  mtu, ipv4mtu,         \* Global_Clatd_Config.mtu, .ipv4mtu
  ipv4_local_subnet,    \* Global_Clatd_Config.ipv4_local_subnet
  ipv6_local_subnet,    \* Global_Clatd_Config.ipv6_local_subnet
  \* ---- event_loop
  pc,                   \* where event_loop is ("idle": not running)
  last_interface_poll,  \* its local of that name
  revents,              \* wait_fd[0].revents, wait_fd[1].revents
  \* ---- environment of the loop
  now,                  \* the wall clock, in seconds
  interrupted,          \* a signal arrived while poll() was blocked
  uplink_ip,            \* what getinterface_ip(uplink, AF_INET6) returns
  \* ---- history of the loop, for the properties
  stopRan,              \* stop_loop has run
  zeroRead,             \* read_packet has seen a zero-length read
  pollsAfterStop,       \* poll() calls entered after stop_loop ran
  iter_calls,           \* calls made while servicing the current iteration
  translate_len,        \* length passed to translate_packet in this iteration, -1: none
  read_in,              \* what the read of this iteration returned (NoRead: no read)
  lastEvent,            \* what the latest step did
  logged,               \* the message the latest step logged ("": none)
  lastCheckAt,          \* time of the latest prefix check that said "same", -1: none
  exit_cause,           \* how event_loop returned last ("none", "flag", "prefix")
  entered_stopped,      \* running was already 0 when event_loop was entered last
  \* ---- configure_interface / configure_clat_ipv6_address
  cpc,                  \* where the configurator is ("c_idle": not called)
  caller,               \* who called configure_clat_ipv6_address
  v4_addr, v6_addr,     \* the explicit literals (NoLiteral: NULL)
  exit_status,          \* the status the process exited with, -1: it runs
  clat6_result,         \* what configure_clat_ipv6_address returned, -1: not yet
  cfg_calls,            \* the primitives invoked by this call, in order
  fail_cause,           \* the step that failed in this call ("none")
  attached_filter,      \* the classifier attached to read_fd6 (<<>>: none)
  little_endian,        \* the host's byte order
  \* ---- the classifier run on a packet
  packet,               \* the packet's bytes
  bpf_pc,               \* index of the next instruction, from 0
  bpf_A,                \* the accumulator
  bpf_loads,            \* the offsets loaded so far
  bpf_ret,              \* the program's return value, -1: it runs
  \* ---- drop_root_but_keep_caps / open_sockets
  cred,                 \* the process's credentials
  tunnel,               \* open_sockets: its local rawsock, tunnel->write_fd6, ->read_fd6
  mark,                 \* the socket mark open_sockets is given
  failed_steps          \* the system calls that failed in the current call

loopVars == <<pc, last_interface_poll, revents, now, interrupted, uplink_ip,
              stopRan, zeroRead, pollsAfterStop, iter_calls, translate_len,
              read_in, lastEvent, logged, lastCheckAt, exit_cause, entered_stopped>>
configVars == <<mtu, ipv4mtu, ipv4_local_subnet, ipv6_local_subnet>>
callVars == <<cpc, caller, v4_addr, v6_addr, exit_status, clat6_result,
              cfg_calls, fail_cause>>
bpfVars == <<packet, bpf_pc, bpf_A, bpf_loads, bpf_ret>>
startVars == <<cred, tunnel, mark, failed_steps>>
vars == <<running, configVars, loopVars, callVars, attached_filter,
          little_endian, bpfVars, startVars>>

\* what the relay loop, and what the configurator, leave alone
notLoop == <<callVars, attached_filter, little_endian, bpfVars, startVars>>
notConfig == <<running, loopVars, little_endian, bpfVars, startVars>>

NoLiteral == "NULL"
NoRead == <<>>

\* readiness bits of a descriptor
POLLIN == "POLLIN"
POLLERR == "POLLERR"
Revents == SUBSET {POLLIN, POLLERR}

\* how long a poll() may block before it returns, in seconds
PollDurations == {0, INTERFACE_POLL_FREQUENCY, NO_TRAFFIC_INTERFACE_POLL_FREQUENCY}

(***************************************************************************)
(* ipv6_prefix_equal (config.c): the two addresses agree on their first    *)
(* 64 bits.                                                                *)
(***************************************************************************)
ipv6_prefix_equal(a1, a2) == SubSeq(a1, 1, 8) = SubSeq(a2, 1, 8)

\* (mutant) an uplink without address taken for "nothing changed"
ipv6_address_changed_open(interface_ip, local_subnet) ==
  IF interface_ip = NoAddr THEN 0
  ELSE IF ~ipv6_prefix_equal(interface_ip, local_subnet) THEN 1
  ELSE 0

(***************************************************************************)
(* ipv6_address_changed: 1 when no address can be queried or the prefixes  *)
(* differ, 0 otherwise.                                                    *)
(***************************************************************************)
ipv6_address_changed(interface_ip, local_subnet) ==
  IF interface_ip = NoAddr THEN 1
  ELSE IF ~ipv6_prefix_equal(interface_ip, local_subnet) THEN 1
  ELSE 0

\* (mutant) the check adopts the uplink's new prefix by itself
subnet_after_check_adopt(interface_ip, local_subnet) ==
  IF interface_ip = NoAddr THEN local_subnet
  ELSE SubSeq(interface_ip, 1, 8) \o SubSeq(local_subnet, 9, 16)

\* ipv6_address_changed only reads Global_Clatd_Config.ipv6_local_subnet:
\* the stored address after the check is the one before
subnet_after_check(interface_ip, local_subnet) == local_subnet

(***************************************************************************)
(* struct tun_pi as read from the tun descriptor: flags, and the protocol  *)
(* tag as its two bytes in network order.  ntohs gives the tag's value.    *)
(***************************************************************************)
\* (mutant) the tag taken in host order on a little-endian host
ntohs_host(b) == b[2] * 256 + b[1]

ntohs(b) == b[1] * 256 + b[2]

TunHeaders == {[flags |-> f, proto |-> p] : f \in {0, 1}, p \in {<<8, 0>>, <<0, 8>>, <<134, 221>>}}

\* the head of buf when the read did not fill a whole header: not looked at
NoHeader == [flags |-> 0, proto |-> <<0, 0>>]

\* what read(read_fd, buf, PACKETLEN) may return
ReadLens == {-1, 0, 1, TUN_PI_SIZE - 1, TUN_PI_SIZE, TUN_PI_SIZE + 20, PACKETLEN}
Errnos == {"EAGAIN", "EIO"}


(***************************************************************************)
(* Byte order.  A 32-bit word in memory is four bytes; s6_addr32 reads it  *)
(* in the host's order, htonl converts a host value to network order.      *)
(* Bytes stay below 128 so that every word fits a 32-bit signed integer.    *)
(***************************************************************************)
be32(b) == ((b[1] * 256 + b[2]) * 256 + b[3]) * 256 + b[4]
le32(b) == ((b[4] * 256 + b[3]) * 256 + b[2]) * 256 + b[1]
bswap32(x) == le32(<<x \div 16777216, (x \div 65536) % 256, (x \div 256) % 256, x % 256>>)

\* Global_Clatd_Config.ipv6_local_subnet.s6_addr32[i], i from 0
s6_addr32(addr, i, le) ==
  IF le THEN le32(SubSeq(addr, 4 * i + 1, 4 * i + 4))
  ELSE be32(SubSeq(addr, 4 * i + 1, 4 * i + 4))

htonl(x, le) == IF le THEN bswap32(x) ELSE x

(***************************************************************************)
(* configure_packet_socket: the classifier program, filter_code[].  Each   *)
(* word of the destination address is loaded and compared; jt and jf are   *)
(* the jump offsets, relative to the next instruction.                     *)
(***************************************************************************)
BPF_STMT(code, k) == [code |-> code, k |-> k, jt |-> 0, jf |-> 0]
BPF_JUMP(code, k, jt, jf) == [code |-> code, k |-> k, jt |-> jt, jf |-> jf]

\* (mutant) the last comparison's miss falls onto the accept instruction
filter_code_jf0(ipv6, le) ==
  << BPF_STMT("LD_W_ABS", 24),
     BPF_JUMP("JEQ_K", htonl(s6_addr32(ipv6, 0, le), le), 0, 7),
     BPF_STMT("LD_W_ABS", 28),
     BPF_JUMP("JEQ_K", htonl(s6_addr32(ipv6, 1, le), le), 0, 5),
     BPF_STMT("LD_W_ABS", 32),
     BPF_JUMP("JEQ_K", htonl(s6_addr32(ipv6, 2, le), le), 0, 3),
     BPF_STMT("LD_W_ABS", 36),
     BPF_JUMP("JEQ_K", htonl(s6_addr32(ipv6, 3, le), le), 0, 0),
     BPF_STMT("RET_K", PACKETLEN),
     BPF_STMT("RET_K", 0) >>

filter_code(ipv6, le) ==
  << BPF_STMT("LD_W_ABS", 24),
     BPF_JUMP("JEQ_K", htonl(s6_addr32(ipv6, 0, le), le), 0, 7),
     BPF_STMT("LD_W_ABS", 28),
     BPF_JUMP("JEQ_K", htonl(s6_addr32(ipv6, 1, le), le), 0, 5),
     BPF_STMT("LD_W_ABS", 32),
     BPF_JUMP("JEQ_K", htonl(s6_addr32(ipv6, 2, le), le), 0, 3),
     BPF_STMT("LD_W_ABS", 36),
     BPF_JUMP("JEQ_K", htonl(s6_addr32(ipv6, 3, le), le), 0, 1),
     BPF_STMT("RET_K", PACKETLEN),
     BPF_STMT("RET_K", 0) >>

(***************************************************************************)
(* configure_interface: the MTU normalization.  m and i are the mtu and    *)
(* ipv4mtu read_config supplied, probe what getifmtu returns.              *)
(***************************************************************************)
normalize_mtu(m, probe) ==
  LET capped == IF m > MAXMTU THEN MAXMTU ELSE m
      probed == IF capped <= 0 THEN probe ELSE capped
  IN IF probed < IPV6_MIN_MTU THEN IPV6_MIN_MTU ELSE probed

normalize_ipv4mtu(i, m) ==
  IF i <= 0 \/ i > m - MTU_DELTA THEN m - MTU_DELTA ELSE i

\* whether the normalization calls getifmtu
probes_mtu(m) == (IF m > MAXMTU THEN MAXMTU ELSE m) <= 0

\* event_loop has not been entered
InitLoop ==
  /\ pc = "idle"
  /\ last_interface_poll = 0
  /\ revents = <<{}, {}>>
  /\ now = 0
  /\ interrupted = FALSE
  /\ uplink_ip \in UplinkIps
  /\ stopRan = FALSE
  /\ zeroRead = FALSE
  /\ pollsAfterStop = 0
  /\ iter_calls = <<>>
  /\ translate_len = -1
  /\ read_in = NoRead
  /\ lastEvent = "init"
  /\ logged = ""
  /\ lastCheckAt = -1
  /\ exit_cause = "none"
  /\ entered_stopped = FALSE

(***************************************************************************)
(* stop_loop: the signal handler.  It may run between any two steps; when  *)
(* it runs while poll() is blocked, that poll() is interrupted.            *)
(***************************************************************************)
stop_loop ==
  /\ running' = 0
  /\ stopRan' = TRUE
  /\ interrupted' = (interrupted \/ pc = "poll")
  /\ lastEvent' = "stop_loop"
  /\ logged' = ""
  /\ UNCHANGED <<configVars, pc, last_interface_poll, revents, now, uplink_ip,
                 zeroRead, pollsAfterStop, iter_calls, translate_len,
                 lastCheckAt, exit_cause>>
  /\ UNCHANGED <<read_in, entered_stopped, notLoop>>

(***************************************************************************)
(* The uplink gets another global IPv6 address, or loses it.               *)
(***************************************************************************)
UplinkChange ==
  /\ \E ip \in UplinkIps \ {uplink_ip} : uplink_ip' = ip
  /\ UNCHANGED <<running, configVars, pc, last_interface_poll, revents, now,
                 interrupted, stopRan, zeroRead, pollsAfterStop, iter_calls,
                 translate_len, lastEvent, logged, lastCheckAt, exit_cause>>
  /\ UNCHANGED <<read_in, entered_stopped, notLoop>>

(***************************************************************************)
(* event_loop, entry: the pollfd array is initialised and the poll timer   *)
(* started.                                                                *)
(***************************************************************************)
EnterEventLoop ==
  /\ pc = "idle"
  /\ pc' = "while"
  /\ last_interface_poll' = now
  /\ revents' = <<{}, {}>>
  /\ iter_calls' = <<>>
  /\ translate_len' = -1
  /\ lastCheckAt' = -1
  /\ exit_cause' = "none"
  /\ entered_stopped' = (running = 0)
  /\ UNCHANGED read_in
  /\ lastEvent' = "enter"
  /\ logged' = ""
  /\ UNCHANGED <<running, configVars, now, interrupted, uplink_ip, stopRan,
                 zeroRead, pollsAfterStop>>
  /\ UNCHANGED notLoop

(***************************************************************************)
(* while (running): the loop condition.                                    *)
(***************************************************************************)
LoopCond ==
  /\ pc = "while"
  /\ IF running # 0
       THEN /\ pc' = "call_poll"
            /\ lastEvent' = "loop"
            /\ exit_cause' = exit_cause
       ELSE /\ pc' = "idle"
            /\ lastEvent' = "return"
            /\ exit_cause' = "flag"
  /\ logged' = ""
  /\ UNCHANGED <<running, configVars, last_interface_poll, revents, now,
                 interrupted, uplink_ip, stopRan, zeroRead, pollsAfterStop,
                 iter_calls, translate_len, lastCheckAt>>
  /\ UNCHANGED <<read_in, entered_stopped, notLoop>>

(***************************************************************************)
(* poll() is called and blocks: a new iteration's servicing starts.        *)
(***************************************************************************)
CallPoll ==
  /\ pc = "call_poll"
  /\ pc' = "poll"
  /\ interrupted' = FALSE
  /\ iter_calls' = <<>>
  /\ translate_len' = -1
  /\ pollsAfterStop' = IF stopRan THEN pollsAfterStop + 1 ELSE pollsAfterStop
  /\ lastEvent' = "poll"
  /\ logged' = ""
  /\ UNCHANGED <<running, configVars, last_interface_poll, revents, now,
                 uplink_ip, stopRan, zeroRead, lastCheckAt, exit_cause>>
  /\ UNCHANGED <<read_in, entered_stopped, notLoop>>

\* (mutant) the descriptors are serviced whatever poll() returned
AfterPoll_service(r) == "ring"

\* where event_loop goes on after poll(): the descriptors are serviced only
\* when poll() did not fail
AfterPoll(r) == IF r = "ok" THEN "ring" ELSE "time"

(***************************************************************************)
(* poll() returns after d seconds: -1 with EINTR (always so when a signal  *)
(* arrived while it was blocked), -1 with another error, or the number of  *)
(* ready descriptors, which is 0 only when the timeout has elapsed.  On an *)
(* error the revents fields keep their values.                             *)
(***************************************************************************)
PollReturn ==
  /\ pc = "poll"
  /\ \E d \in PollDurations, r \in {"ok", "EINTR", "error"}, rv0 \in Revents, rv1 \in Revents :
       /\ now + d <= MaxTime
       /\ interrupted => r = "EINTR"
       /\ r = "EINTR" => d < NO_TRAFFIC_INTERFACE_POLL_FREQUENCY
       /\ r = "error" => d = 0
       /\ r # "ok" => rv0 = revents[1] /\ rv1 = revents[2]
       /\ (r = "ok" /\ rv0 = {} /\ rv1 = {}) => d = NO_TRAFFIC_INTERFACE_POLL_FREQUENCY
       /\ now' = now + d
       /\ revents' = <<rv0, rv1>>
       /\ pc' = AfterPoll(r)
       /\ logged' = IF r = "error" THEN "event_loop/poll returned an error" ELSE ""
       /\ lastEvent' = CASE r = "ok" -> "poll_ok"
                         [] r = "EINTR" -> "poll_eintr"
                         [] OTHER -> "poll_error"
  /\ UNCHANGED <<running, configVars, last_interface_poll, interrupted,
                 uplink_ip, stopRan, zeroRead, pollsAfterStop, iter_calls,
                 translate_len, lastCheckAt, exit_cause>>
  /\ UNCHANGED <<read_in, entered_stopped, notLoop>>

(***************************************************************************)
(* if (wait_fd[0].revents & POLLIN) ring_read(...)                         *)
(***************************************************************************)
RingRead ==
  /\ pc = "ring"
  /\ pc' = "peek"
  /\ IF POLLIN \in revents[1]
       THEN /\ iter_calls' = Append(iter_calls, "ring_read")
            /\ lastEvent' = "ring_read"
       ELSE /\ iter_calls' = iter_calls
            /\ lastEvent' = "no_ring_read"
  /\ logged' = ""
  /\ UNCHANGED <<running, configVars, last_interface_poll, revents, now,
                 interrupted, uplink_ip, stopRan, zeroRead, pollsAfterStop,
                 translate_len, lastCheckAt, exit_cause>>
  /\ UNCHANGED <<read_in, entered_stopped, notLoop>>

(***************************************************************************)
(* if (wait_fd[0].revents & ~POLLIN) recv(read_fd6, NULL, 0, MSG_PEEK)     *)
(***************************************************************************)
PeekError ==
  /\ pc = "peek"
  /\ pc' = "fd4"
  /\ IF revents[1] \ {POLLIN} # {}
       THEN /\ iter_calls' = Append(iter_calls, "recv_peek")
            /\ lastEvent' = "recv_peek"
            /\ logged' = "event_loop: clearing error on read_fd6"
       ELSE /\ iter_calls' = iter_calls
            /\ lastEvent' = "no_recv_peek"
            /\ logged' = ""
  /\ UNCHANGED <<running, configVars, last_interface_poll, revents, now,
                 interrupted, uplink_ip, stopRan, zeroRead, pollsAfterStop,
                 translate_len, lastCheckAt, exit_cause>>
  /\ UNCHANGED <<read_in, entered_stopped, notLoop>>

(***************************************************************************)
(* read_packet: one read from the tun descriptor.  readlen is what read()  *)
(* returned, errno its error, hdr the frame header at the head of buf.     *)
(***************************************************************************)
\* which branch of read_packet a read takes
read_packet_branch(readlen, hdr) ==
  IF readlen < 0 THEN "read_neg"
  ELSE IF readlen = 0 THEN "read_zero"
  ELSE IF readlen < TUN_PI_SIZE THEN "read_short"
  ELSE IF ntohs(hdr.proto) # ETH_P_IP THEN "read_nonip"
  ELSE IF hdr.flags # 0 THEN "read_flags"
  ELSE "read_ipv4"

\* (mutants) the zero-length read forgotten; any failed read taken for
\* removal; any read shorter than the frame header taken for removal; the
\* flag set again by any other read
read_packet_running_never(readlen) == running
read_packet_running_neg(readlen) == IF readlen <= 0 THEN 0 ELSE running
read_packet_running_short(readlen) ==
  IF 0 <= readlen /\ readlen < TUN_PI_SIZE THEN 0 ELSE running
read_packet_running_data(readlen) == IF readlen = 0 THEN 0 ELSE 1

\* the running flag after a read: cleared by a zero-length read alone
read_packet_running(readlen) == IF readlen = 0 THEN 0 ELSE running

\* what read_packet logs
read_packet_log(readlen, errno, hdr) ==
  CASE read_packet_branch(readlen, hdr) = "read_neg" ->
         IF errno # "EAGAIN" THEN "read_packet/read error" ELSE ""
    [] read_packet_branch(readlen, hdr) = "read_zero" -> "read_packet/tun interface removed"
    [] read_packet_branch(readlen, hdr) = "read_short" -> "read_packet/short read"
    [] read_packet_branch(readlen, hdr) = "read_nonip" -> "read_packet: unknown packet type"
    [] read_packet_branch(readlen, hdr) = "read_flags" -> "read_packet: unexpected flags"
    [] OTHER -> ""

read_packet(readlen, errno, hdr) ==
  LET branch == read_packet_branch(readlen, hdr)
      translates == branch \in {"read_flags", "read_ipv4"}
  IN /\ lastEvent' = branch
     /\ logged' = read_packet_log(readlen, errno, hdr)
     /\ running' = read_packet_running(readlen)
     /\ zeroRead' = (zeroRead \/ readlen = 0)
     /\ read_in' = [readlen |-> readlen, hdr |-> hdr]
     /\ translate_len' = IF translates THEN readlen - TUN_PI_SIZE ELSE translate_len
     /\ iter_calls' = IF translates
                        THEN iter_calls \o <<"read_packet", "translate_packet">>
                        ELSE Append(iter_calls, "read_packet")

\* (mutant) read_packet called for read-readiness only
fd4_ready_pollin(rv) == POLLIN \in rv

\* if (wait_fd[1].revents): any event on the IPv4-facing descriptor
fd4_ready(rv) == rv # {}

(***************************************************************************)
(* if (wait_fd[1].revents) read_packet(fd4, write_fd6, 1)                  *)
(***************************************************************************)
ReadFd4 ==
  /\ pc = "fd4"
  /\ pc' = "time"
  /\ IF fd4_ready(revents[2])
       THEN \E readlen \in ReadLens, errno \in Errnos, hdr \in TunHeaders \cup {NoHeader} :
              /\ hdr = NoHeader <=> readlen < TUN_PI_SIZE
              /\ read_packet(readlen, errno, hdr)
       ELSE /\ lastEvent' = "no_read"
            /\ logged' = ""
            /\ UNCHANGED <<running, zeroRead, translate_len, iter_calls, read_in>>
  /\ UNCHANGED <<configVars, last_interface_poll, revents, now, interrupted,
                 uplink_ip, stopRan, pollsAfterStop, lastCheckAt, exit_cause>>
  /\ UNCHANGED <<entered_stopped, notLoop>>

(***************************************************************************)
(* now = time(NULL); if (last_interface_poll < now - INTERFACE_POLL_...)   *)
(* The servicing of this iteration is over: its history is cleared.        *)
(***************************************************************************)
TimeCheck ==
  /\ pc = "time"
  /\ pc' = IF last_interface_poll < now - INTERFACE_POLL_FREQUENCY
             THEN "check" ELSE "while"
  /\ lastEvent' = "time"
  /\ logged' = ""
  /\ iter_calls' = <<>>
  /\ translate_len' = -1
  /\ read_in' = NoRead
  /\ UNCHANGED <<running, configVars, last_interface_poll, revents, now,
                 interrupted, uplink_ip, stopRan, zeroRead, pollsAfterStop,
                 lastCheckAt, exit_cause>>
  /\ UNCHANGED <<entered_stopped, notLoop>>

\* (mutant) the break forgotten
AfterChange_continue == "while"

\* break: a changed prefix leaves the loop, and event_loop returns
AfterChange == "idle"

(***************************************************************************)
(* if (ipv6_address_changed(default_pdp_interface)) break;                 *)
(***************************************************************************)
PrefixCheck ==
  /\ pc = "check"
  /\ IF ipv6_address_changed(uplink_ip, ipv6_local_subnet) # 0
       THEN /\ pc' = AfterChange
            /\ exit_cause' = IF AfterChange = "idle" THEN "prefix" ELSE exit_cause
            /\ lastEvent' = "check_changed"
            /\ logged' = IF uplink_ip = NoAddr
                           THEN "Unable to find an IPv6 address on interface"
                           ELSE "IPv6 prefix changed"
            /\ lastCheckAt' = lastCheckAt
       ELSE /\ pc' = "while"
            /\ exit_cause' = exit_cause
            /\ lastEvent' = "check_same"
            /\ logged' = ""
            /\ lastCheckAt' = now
  /\ ipv6_local_subnet' = subnet_after_check(uplink_ip, ipv6_local_subnet)
  /\ UNCHANGED <<running, mtu, ipv4mtu, ipv4_local_subnet, last_interface_poll, revents, now,
                 interrupted, uplink_ip, stopRan, zeroRead, pollsAfterStop,
                 iter_calls, translate_len>>
  /\ UNCHANGED <<read_in, entered_stopped, notLoop>>

(***************************************************************************)
(* Init: the state when the relay loop is first entered: running is 1      *)
(* (its initializer), the session is configured, the classifier for its    *)
(* address attached; the configurator is not running.                      *)
(***************************************************************************)
InitCallIdle ==
  /\ cpc = "c_idle"
  /\ caller = "none"
  /\ v4_addr = NoLiteral
  /\ v6_addr = NoLiteral
  /\ exit_status = -1
  /\ clat6_result = -1
  /\ cfg_calls = <<>>
  /\ fail_cause = "none"

\* the process as it starts: root, with every capability, no socket open
RootCred ==
  [groups |-> {}, gid |-> "root", uid |-> "root", keepcaps |-> FALSE, caps |-> "all"]
NoSockets == [rawsock |-> -1, write_fd6 |-> -1, read_fd6 |-> -1]

InitStartIdle ==
  /\ cred = RootCred
  /\ tunnel = NoSockets
  /\ mark = MARK_UNSET
  /\ failed_steps = {}

InitFilterIdle ==
  /\ packet = <<>>
  /\ bpf_pc = 0
  /\ bpf_A = 0
  /\ bpf_loads = <<>>
  /\ bpf_ret = -1

Init ==
  /\ running = 1
  /\ mtu = 1500
  /\ ipv4mtu = 1500 - MTU_DELTA
  /\ ipv4_local_subnet = <<192, 0, 0, 4>>
  /\ ipv6_local_subnet = P1 \o IidA
  /\ little_endian = TRUE
  /\ attached_filter = filter_code(ipv6_local_subnet, little_endian)
  /\ InitLoop
  /\ InitCallIdle
  /\ InitFilterIdle
  /\ InitStartIdle

\* the steps of event_loop itself
LoopStep ==
  \/ LoopCond
  \/ CallPoll
  \/ PollReturn
  \/ RingRead
  \/ PeekError
  \/ ReadFd4
  \/ TimeCheck
  \/ PrefixCheck

Next ==
  \/ stop_loop
  \/ UplinkChange
  \/ EnterEventLoop
  \/ LoopStep

Spec == Init /\ [][Next]_vars

\* The process is scheduled and poll() returns: a step of the loop that can
\* be taken is taken.
FairSpec == Spec /\ WF_vars(LoopStep)

(***************************************************************************)
(*                 configure_interface and what it calls                   *)
(***************************************************************************)

\* the explicit IPv4 literals a caller may pass, and inet_pton(AF_INET, ..):
\* the address, or INADDR_NONE here for "returned 0"
INADDR_NONE == <<255, 255, 255, 255>>
V4Literals == {NoLiteral, "192.0.0.4", "192.0.0.400", "clat"}
inet_pton4(str) ==
  CASE str = "192.0.0.4" -> <<192, 0, 0, 4>>
    [] str = "192.0.0.5" -> <<192, 0, 0, 5>>
    [] OTHER -> INADDR_NONE

\* what config_select_ipv4_address may return
SelectedV4 == {INADDR_NONE, <<192, 0, 0, 4>>, <<192, 0, 0, 5>>}

\* the explicit IPv6 literals, and inet_pton(AF_INET6, ..): NoAddr for
\* "returned 0"
V6Literals == {NoLiteral, "2001:d38:1::464", "2001:d38:2::464", "2001:d38:1::g"}
inet_pton6(str) ==
  CASE str = "2001:d38:1::464" -> P1 \o IidA
    [] str = "2001:d38:2::464" -> P2 \o IidA
    [] OTHER -> NoAddr

\* config_generate_local_ipv6_subnet (config.c): an interface identifier,
\* the same on every call, put after the /64 prefix of the uplink's address
config_generate_local_ipv6_subnet(ip6) == SubSeq(ip6, 1, 8) \o IidA

\* the mtu and ipv4mtu read_config may supply, and what getifmtu may return
ConfigMtus == {-1, 0, 1000, IPV6_MIN_MTU - 1, IPV6_MIN_MTU, 1500, MAXMTU, MAXMTU + 1}
ConfigIpv4Mtus == {-1, 0, 1, IPV6_MIN_MTU - MTU_DELTA, 1500 - MTU_DELTA,
                   1500 - MTU_DELTA + 1, MAXMTU}
ProbeMtus == {-1, 1000, IPV6_MIN_MTU, 1500, MAXMTU, MAXMTU + 1}

\* the status add_address and if_up may return: 0, or a negated errno
Statuses == {0, -17}

\* the process has not exited and the loop is not running
Configuring == exit_status = -1 /\ pc = "idle"

\* exit(1), after the step named cause failed
Exit1(cause) ==
  /\ cpc' = "exited"
  /\ exit_status' = 1
  /\ fail_cause' = cause

(***************************************************************************)
(* The process's main flow calls configure_interface.                      *)
(***************************************************************************)
CallConfigureInterface ==
  /\ cpc = "c_idle"
  /\ Configuring
  /\ cpc' = "read_config"
  /\ caller' = "configure_interface"
  /\ v4_addr' \in V4Literals
  /\ v6_addr' \in V6Literals
  /\ UNCHANGED <<configVars, exit_status, clat6_result, cfg_calls, fail_cause,
                 attached_filter>>
  /\ UNCHANGED notConfig

(***************************************************************************)
(* if (!read_config(...)) exit(1);                                         *)
(***************************************************************************)
ReadConfig ==
  /\ cpc = "read_config"
  /\ cfg_calls' = Append(cfg_calls, "read_config")
  /\ \/ /\ Exit1("read_config")
        /\ UNCHANGED <<mtu, ipv4mtu>>
     \/ /\ mtu' \in ConfigMtus
        /\ ipv4mtu' \in ConfigIpv4Mtus
        /\ cpc' = "normalize"
        /\ UNCHANGED <<exit_status, fail_cause>>
  /\ UNCHANGED <<ipv4_local_subnet, ipv6_local_subnet, caller, v4_addr, v6_addr,
                 clat6_result, attached_filter>>
  /\ UNCHANGED notConfig

(***************************************************************************)
(* The MTU normalization of configure_interface.                           *)
(***************************************************************************)
NormalizeMtu ==
  /\ cpc = "normalize"
  /\ \E probe \in ProbeMtus :
       /\ mtu' = normalize_mtu(mtu, probe)
       /\ ipv4mtu' = normalize_ipv4mtu(ipv4mtu, normalize_mtu(mtu, probe))
  /\ cfg_calls' = IF probes_mtu(mtu) THEN Append(cfg_calls, "getifmtu") ELSE cfg_calls
  /\ cpc' = "tun_select"
  /\ UNCHANGED <<ipv4_local_subnet, ipv6_local_subnet, caller, v4_addr, v6_addr,
                 exit_status, clat6_result, fail_cause, attached_filter>>
  /\ UNCHANGED notConfig

(***************************************************************************)
(* configure_tun_ip, first part: ipv4_address_from_cmdline when a literal  *)
(* is given, ipv4_address_generate otherwise; either exits on failure.     *)
(***************************************************************************)
TunSelect ==
  /\ cpc = "tun_select"
  /\ IF v4_addr # NoLiteral
       THEN /\ cfg_calls' = Append(cfg_calls, "inet_pton4")
            /\ IF inet_pton4(v4_addr) = INADDR_NONE
                 THEN /\ Exit1("v4_parse")
                      /\ UNCHANGED ipv4_local_subnet
                 ELSE /\ ipv4_local_subnet' = inet_pton4(v4_addr)
                      /\ cpc' = "tun_add"
                      /\ UNCHANGED <<exit_status, fail_cause>>
       ELSE /\ cfg_calls' = Append(cfg_calls, "config_select_ipv4_address")
            /\ \E localaddr \in SelectedV4 :
                 IF localaddr = INADDR_NONE
                   THEN /\ Exit1("v4_select")
                        /\ UNCHANGED ipv4_local_subnet
                   ELSE /\ ipv4_local_subnet' = localaddr
                        /\ cpc' = "tun_add"
                        /\ UNCHANGED <<exit_status, fail_cause>>
  /\ UNCHANGED <<mtu, ipv4mtu, ipv6_local_subnet, caller, v4_addr, v6_addr,
                 clat6_result, attached_filter>>
  /\ UNCHANGED notConfig

\* (mutant) the status of add_address ignored
after_add_address_ignored(status) == "tun_up"

\* if (status < 0) exit(1), after add_address
after_add_address(status) == IF status < 0 THEN "exited" ELSE "tun_up"

(***************************************************************************)
(* configure_tun_ip: status = add_address(...); if (status < 0) exit(1);   *)
(***************************************************************************)
TunAdd ==
  /\ cpc = "tun_add"
  /\ cfg_calls' = Append(cfg_calls, "add_address")
  /\ \E status \in Statuses :
       /\ cpc' = after_add_address(status)
       /\ exit_status' = IF after_add_address(status) = "exited" THEN 1 ELSE exit_status
       /\ fail_cause' = IF status < 0 THEN "add_address" ELSE fail_cause
  /\ UNCHANGED <<configVars, caller, v4_addr, v6_addr, clat6_result, attached_filter>>
  /\ UNCHANGED notConfig

(***************************************************************************)
(* configure_tun_ip: status = if_up(...); if (status < 0) exit(1);         *)
(***************************************************************************)
TunUp ==
  /\ cpc = "tun_up"
  /\ cfg_calls' = Append(cfg_calls, "if_up")
  /\ \E status \in Statuses :
       IF status < 0
         THEN Exit1("if_up")
         ELSE /\ cpc' = "clat6_resolve"
              /\ UNCHANGED <<exit_status, fail_cause>>
  /\ UNCHANGED <<configVars, caller, v4_addr, v6_addr, clat6_result, attached_filter>>
  /\ UNCHANGED notConfig

\* (mutant) the result of the resolution not looked at
after_resolve_ignored(ret) == "clat6_anycast"

\* if (!ret) return 0;
after_resolve(ret) == IF ret = 0 THEN "clat6_ret" ELSE "clat6_anycast"

(***************************************************************************)
(* configure_clat_ipv6_address, first part: the address is resolved by     *)
(* clat_ipv6_address_from_cmdline or clat_ipv6_address_from_interface,     *)
(* which store it only when they succeed (inet_pton leaves its destination *)
(* alone when the literal is not valid); if (!ret) return 0.               *)
(***************************************************************************)
Clat6Resolve ==
  /\ cpc = "clat6_resolve"
  /\ LET literal == v6_addr # NoLiteral
         addr == IF literal THEN inet_pton6(v6_addr)
                 ELSE IF uplink_ip = NoAddr THEN NoAddr
                 ELSE config_generate_local_ipv6_subnet(uplink_ip)
         ret == IF addr = NoAddr THEN 0 ELSE 1
     IN /\ cfg_calls' = Append(cfg_calls, IF literal THEN "inet_pton6" ELSE "getinterface_ip")
        /\ ipv6_local_subnet' = IF ret = 0 THEN ipv6_local_subnet ELSE addr
        /\ fail_cause' = IF ret # 0 THEN fail_cause
                         ELSE IF literal THEN "v6_parse" ELSE "v6_query"
        /\ cpc' = after_resolve(ret)
        /\ clat6_result' = IF after_resolve(ret) = "clat6_ret" THEN 0 ELSE clat6_result
  /\ UNCHANGED <<mtu, ipv4mtu, ipv4_local_subnet, caller, v4_addr, v6_addr,
                 exit_status, attached_filter>>
  /\ UNCHANGED notConfig

(***************************************************************************)
(* configure_clat_ipv6_address: add_anycast_address(write_fd6, ...)        *)
(***************************************************************************)
Clat6Anycast ==
  /\ cpc = "clat6_anycast"
  /\ cfg_calls' = Append(cfg_calls, "add_anycast_address")
  /\ cpc' = "attach"
  /\ UNCHANGED <<configVars, caller, v4_addr, v6_addr, exit_status,
                 clat6_result, fail_cause, attached_filter>>
  /\ UNCHANGED notConfig

\* (mutant) the bind attempted whatever the attach returned
after_attach_ignored(ok) == "bind"

\* if (setsockopt(sock, SOL_SOCKET, SO_ATTACH_FILTER, ...)) return 0;
after_attach(ok) == IF ok THEN "bind" ELSE "clat6_ret"

(***************************************************************************)
(* configure_packet_socket, first part: the program is built from the      *)
(* stored address and attached; on failure it returns 0, and so does       *)
(* configure_clat_ipv6_address.                                            *)
(***************************************************************************)
AttachFilter ==
  /\ cpc = "attach"
  /\ cfg_calls' = Append(cfg_calls, "attach_filter")
  /\ \E ok \in BOOLEAN :
       /\ attached_filter' = IF ok THEN filter_code(ipv6_local_subnet, little_endian)
                             ELSE attached_filter
       /\ fail_cause' = IF ok THEN fail_cause ELSE "attach"
       /\ cpc' = after_attach(ok)
       /\ clat6_result' = IF after_attach(ok) = "clat6_ret" THEN 0 ELSE clat6_result
  /\ UNCHANGED <<configVars, caller, v4_addr, v6_addr, exit_status>>
  /\ UNCHANGED notConfig

(***************************************************************************)
(* configure_packet_socket, second part: bind to the uplink, for           *)
(* ETH_P_IPV6 and PACKET_OTHERHOST; 0 on failure, 1 otherwise, which       *)
(* configure_clat_ipv6_address passes on.                                  *)
(***************************************************************************)
BindSocket ==
  /\ cpc = "bind"
  /\ cfg_calls' = Append(cfg_calls, "bind")
  /\ \/ /\ clat6_result' = 1
        /\ UNCHANGED fail_cause
     \/ /\ clat6_result' = 0
        /\ fail_cause' = "bind"
  /\ cpc' = "clat6_ret"
  /\ UNCHANGED <<configVars, caller, v4_addr, v6_addr, exit_status, attached_filter>>
  /\ UNCHANGED notConfig

\* (mutant) the return value of configure_clat_ipv6_address ignored
after_clat6_ignored(who, ret) == "done"

\* configure_interface: if (!configure_clat_ipv6_address(...)) exit(1);
\* another caller gets the value and goes on
after_clat6(who, ret) ==
  IF who = "configure_interface" /\ ret = 0 THEN "exited" ELSE "done"

(***************************************************************************)
(* configure_clat_ipv6_address has returned to its caller.                 *)
(***************************************************************************)
Clat6Return ==
  /\ cpc = "clat6_ret"
  /\ cpc' = after_clat6(caller, clat6_result)
  /\ exit_status' = IF after_clat6(caller, clat6_result) = "exited" THEN 1 ELSE exit_status
  /\ UNCHANGED <<configVars, caller, v4_addr, v6_addr, clat6_result, cfg_calls,
                 fail_cause, attached_filter>>
  /\ UNCHANGED notConfig

(***************************************************************************)
(* With the session configured, configure_clat_ipv6_address is called      *)
(* again on its own (a live reconfiguration).                              *)
(***************************************************************************)
CallConfigureClat6 ==
  /\ cpc = "done"
  /\ Configuring
  /\ cpc' = "clat6_resolve"
  /\ caller' = "reconfigure"
  /\ v6_addr' \in V6Literals
  /\ clat6_result' = -1
  /\ cfg_calls' = <<>>
  /\ fail_cause' = "none"
  /\ UNCHANGED <<configVars, v4_addr, exit_status, attached_filter>>
  /\ UNCHANGED notConfig

\* the state before the session is configured: the configuration is a
\* zero-initialised global
InitConfig ==
  /\ running = 1
  /\ mtu = 0
  /\ ipv4mtu = 0
  /\ ipv4_local_subnet = <<0, 0, 0, 0>>
  /\ ipv6_local_subnet = <<0, 0, 0, 0, 0, 0, 0, 0, 0, 0, 0, 0, 0, 0, 0, 0>>
  /\ little_endian \in BOOLEAN
  /\ attached_filter = <<>>
  /\ InitLoop
  /\ InitCallIdle
  /\ InitFilterIdle
  /\ InitStartIdle

NextConfig ==
  \/ CallConfigureInterface
  \/ ReadConfig
  \/ NormalizeMtu
  \/ TunSelect
  \/ TunAdd
  \/ TunUp
  \/ Clat6Resolve
  \/ Clat6Anycast
  \/ AttachFilter
  \/ BindSocket
  \/ Clat6Return
  \/ CallConfigureClat6
  \/ UplinkChange

SpecConfig == InitConfig /\ [][NextConfig]_vars

(***************************************************************************)
(*                 The classifier program run on a packet                  *)
(***************************************************************************)

\* the session addresses the classifier is built for; in the third, words
\* are byte-reversed images of each other
FilterAddrs == {P1 \o IidA, P2 \o IidA,
                <<1, 2, 3, 4, 4, 3, 2, 1, 1, 2, 3, 4, 5, 6, 7, 8>>}

\* addr with its byte j changed
FlipByte(addr, j) == [addr EXCEPT ![j] = (addr[j] + 1) % 128]
\* addr with the bytes of each word reversed; with its words rotated
SwapWords(addr) == [j \in 1..16 |-> addr[4 * ((j - 1) \div 4) + 4 - ((j - 1) % 4)]]
RotateWords(addr) == SubSeq(addr, 5, 16) \o SubSeq(addr, 1, 4)

\* the destination addresses tried against addr
Dsts(addr) ==
  {addr, SwapWords(addr), RotateWords(addr)}
    \cup {FlipByte(addr, j) : j \in 1..16}
    \cup FilterAddrs

\* a packet: 24 bytes of IPv6 header before the destination address, the
\* address, 8 bytes of payload; cut to len bytes
Header24 == <<96, 0, 0, 0, 0, 8, 17, 64>> \o P2 \o IidB
Payload8 == <<0, 53, 0, 53, 0, 8, 0, 0>>
PacketLens == {24, 27, 39, 40, 48}
Packets(addr) ==
  {SubSeq(Header24 \o dst \o Payload8, 1, len) : dst \in Dsts(addr), len \in PacketLens}

InitFilter ==
  /\ running = 1
  /\ mtu = 1500
  /\ ipv4mtu = 1500 - MTU_DELTA
  /\ ipv4_local_subnet = <<192, 0, 0, 4>>
  /\ ipv6_local_subnet \in FilterAddrs
  /\ little_endian \in BOOLEAN
  /\ attached_filter = filter_code(ipv6_local_subnet, little_endian)
  /\ InitLoop
  /\ InitCallIdle
  /\ InitStartIdle
  /\ packet \in Packets(ipv6_local_subnet)
  /\ bpf_pc = 0
  /\ bpf_A = 0
  /\ bpf_loads = <<>>
  /\ bpf_ret = -1

\* what the classifier leaves alone
notFilter == <<running, configVars, loopVars, callVars, attached_filter,
               little_endian, packet, startVars>>

\* the instruction to execute
Insn == attached_filter[bpf_pc + 1]
BpfRunning == bpf_ret = -1 /\ bpf_pc < Len(attached_filter)

(***************************************************************************)
(* BPF_LD | BPF_W | BPF_ABS: the accumulator gets the 32-bit word at       *)
(* offset k of the packet, read as a big-endian number; a load beyond the  *)
(* packet's end ends the program with 0.                                   *)
(***************************************************************************)
BpfLoad ==
  /\ BpfRunning
  /\ Insn.code = "LD_W_ABS"
  /\ bpf_loads' = Append(bpf_loads, Insn.k)
  /\ IF Insn.k + 4 > Len(packet)
       THEN /\ bpf_ret' = 0
            /\ UNCHANGED <<bpf_A, bpf_pc>>
       ELSE /\ bpf_A' = be32(SubSeq(packet, Insn.k + 1, Insn.k + 4))
            /\ bpf_pc' = bpf_pc + 1
            /\ UNCHANGED bpf_ret
  /\ UNCHANGED notFilter

(***************************************************************************)
(* BPF_JMP | BPF_JEQ | BPF_K: skip jt instructions when the accumulator    *)
(* equals k, jf instructions otherwise.                                    *)
(***************************************************************************)
BpfJump ==
  /\ BpfRunning
  /\ Insn.code = "JEQ_K"
  /\ bpf_pc' = bpf_pc + 1 + (IF bpf_A = Insn.k THEN Insn.jt ELSE Insn.jf)
  /\ UNCHANGED <<bpf_A, bpf_loads, bpf_ret>>
  /\ UNCHANGED notFilter

(***************************************************************************)
(* BPF_RET | BPF_K: the program ends with k, the number of bytes of the    *)
(* packet to accept (0: none, the packet is rejected).                     *)
(***************************************************************************)
BpfRet ==
  /\ BpfRunning
  /\ Insn.code = "RET_K"
  /\ bpf_ret' = Insn.k
  /\ UNCHANGED <<bpf_A, bpf_loads, bpf_pc>>
  /\ UNCHANGED notFilter

NextFilter ==
  \/ BpfLoad
  \/ BpfJump
  \/ BpfRet

SpecFilter == InitFilter /\ [][NextFilter]_vars

(***************************************************************************)
(*        drop_root_but_keep_caps and open_sockets, called at startup      *)
(***************************************************************************)

\* what drop_root_but_keep_caps asks for
ClatGroups == {"AID_INET", "AID_VPN"}
ClatCaps == {"CAP_NET_ADMIN", "CAP_NET_RAW", "CAP_IPC_LOCK"}

\* the marks a caller may pass, the descriptors socket() and ring_create may
\* return (negative: failure)
Marks == {MARK_UNSET, 1, 100}
RawSocks == {-1, 3}
RingFds == {-1, 4}

\* a system call of the current call failed
StepFails(step) == failed_steps' = failed_steps \cup {step}

(***************************************************************************)
(* The process's main flow calls drop_root_but_keep_caps (once).           *)
(***************************************************************************)
CallDropRoot ==
  /\ cpc \in {"c_idle", "opened"}
  /\ Configuring
  /\ cred = RootCred
  /\ cpc' = "setgroups"
  /\ caller' = "drop_root_but_keep_caps"
  /\ cfg_calls' = <<>>
  /\ fail_cause' = "none"
  /\ failed_steps' = {}
  /\ UNCHANGED <<v4_addr, v6_addr, exit_status, clat6_result, cred, tunnel, mark>>
  /\ UNCHANGED <<running, configVars, loopVars, attached_filter, little_endian, bpfVars>>

(***************************************************************************)
(* if (setgroups(2, groups) < 0) exit(1);                                  *)
(***************************************************************************)
SetGroups ==
  /\ cpc = "setgroups"
  /\ cfg_calls' = Append(cfg_calls, "setgroups")
  /\ \/ /\ StepFails("setgroups")
        /\ Exit1("setgroups")
        /\ UNCHANGED cred
     \/ /\ cred' = [cred EXCEPT !.groups = ClatGroups]
        /\ cpc' = "prctl"
        /\ UNCHANGED <<exit_status, fail_cause, failed_steps>>
  /\ UNCHANGED <<caller, v4_addr, v6_addr, clat6_result, tunnel, mark>>
  /\ UNCHANGED <<running, configVars, loopVars, attached_filter, little_endian, bpfVars>>

(***************************************************************************)
(* prctl(PR_SET_KEEPCAPS, 1): its result is not looked at.                 *)
(***************************************************************************)
SetKeepCaps ==
  /\ cpc = "prctl"
  /\ cfg_calls' = Append(cfg_calls, "prctl")
  /\ \/ /\ StepFails("prctl")
        /\ UNCHANGED cred
     \/ /\ cred' = [cred EXCEPT !.keepcaps = TRUE]
        /\ UNCHANGED failed_steps
  /\ cpc' = "setresgid"
  /\ UNCHANGED <<caller, v4_addr, v6_addr, exit_status, clat6_result, fail_cause,
                 tunnel, mark>>
  /\ UNCHANGED <<running, configVars, loopVars, attached_filter, little_endian, bpfVars>>

(***************************************************************************)
(* if (setresgid(AID_CLAT, AID_CLAT, AID_CLAT) < 0) exit(1);               *)
(***************************************************************************)
SetResGid ==
  /\ cpc = "setresgid"
  /\ cfg_calls' = Append(cfg_calls, "setresgid")
  /\ \/ /\ StepFails("setresgid")
        /\ Exit1("setresgid")
        /\ UNCHANGED cred
     \/ /\ cred' = [cred EXCEPT !.gid = "AID_CLAT"]
        /\ cpc' = "setresuid"
        /\ UNCHANGED <<exit_status, fail_cause, failed_steps>>
  /\ UNCHANGED <<caller, v4_addr, v6_addr, clat6_result, tunnel, mark>>
  /\ UNCHANGED <<running, configVars, loopVars, attached_filter, little_endian, bpfVars>>

(***************************************************************************)
(* if (setresuid(AID_CLAT, AID_CLAT, AID_CLAT) < 0) exit(1);               *)
(***************************************************************************)
SetResUid ==
  /\ cpc = "setresuid"
  /\ cfg_calls' = Append(cfg_calls, "setresuid")
  /\ \/ /\ StepFails("setresuid")
        /\ Exit1("setresuid")
        /\ UNCHANGED cred
     \/ /\ cred' = [cred EXCEPT !.uid = "AID_CLAT"]
        /\ cpc' = "capset"
        /\ UNCHANGED <<exit_status, fail_cause, failed_steps>>
  /\ UNCHANGED <<caller, v4_addr, v6_addr, clat6_result, tunnel, mark>>
  /\ UNCHANGED <<running, configVars, loopVars, attached_filter, little_endian, bpfVars>>

(***************************************************************************)
(* set_capability: if (capset(&header, cap) < 0) exit(1); then             *)
(* drop_root_but_keep_caps returns.                                        *)
(***************************************************************************)
set_capability ==
  /\ cpc = "capset"
  /\ cfg_calls' = Append(cfg_calls, "capset")
  /\ \/ /\ StepFails("capset")
        /\ Exit1("capset")
        /\ UNCHANGED cred
     \/ /\ cred' = [cred EXCEPT !.caps = ClatCaps]
        /\ cpc' = "dropped"
        /\ UNCHANGED <<exit_status, fail_cause, failed_steps>>
  /\ UNCHANGED <<caller, v4_addr, v6_addr, clat6_result, tunnel, mark>>
  /\ UNCHANGED <<running, configVars, loopVars, attached_filter, little_endian, bpfVars>>

(***************************************************************************)
(* The process's main flow calls open_sockets (once).                      *)
(***************************************************************************)
CallOpenSockets ==
  /\ cpc \in {"c_idle", "dropped"}
  /\ Configuring
  /\ tunnel = NoSockets
  /\ cpc' = "socket"
  /\ caller' = "open_sockets"
  /\ cfg_calls' = <<>>
  /\ fail_cause' = "none"
  /\ failed_steps' = {}
  /\ UNCHANGED <<v4_addr, v6_addr, exit_status, clat6_result, cred, tunnel, mark>>
  /\ UNCHANGED <<running, configVars, loopVars, attached_filter, little_endian, bpfVars>>

(***************************************************************************)
(* rawsock = socket(AF_INET6, SOCK_RAW | ..., IPPROTO_RAW);                *)
(* if (rawsock < 0) exit(1);                                               *)
(***************************************************************************)
RawSocket ==
  /\ cpc = "socket"
  /\ cfg_calls' = Append(cfg_calls, "socket")
  /\ \E rawsock \in RawSocks :
       /\ tunnel' = [tunnel EXCEPT !.rawsock = rawsock]
       /\ IF rawsock < 0
            THEN /\ StepFails("socket")
                 /\ Exit1("socket")
            ELSE /\ cpc' = "checksum"
                 /\ UNCHANGED <<exit_status, fail_cause, failed_steps>>
  /\ UNCHANGED <<caller, v4_addr, v6_addr, clat6_result, cred, mark>>
  /\ UNCHANGED <<running, configVars, loopVars, attached_filter, little_endian, bpfVars>>

(***************************************************************************)
(* if (setsockopt(rawsock, SOL_IPV6, IPV6_CHECKSUM, ...) < 0) logmsg(WARN) *)
(***************************************************************************)
DisableChecksum ==
  /\ cpc = "checksum"
  /\ cfg_calls' = Append(cfg_calls, "setsockopt_checksum")
  /\ \/ StepFails("setsockopt_checksum")
     \/ UNCHANGED failed_steps
  /\ cpc' = "mark"
  /\ UNCHANGED <<caller, v4_addr, v6_addr, exit_status, clat6_result, fail_cause,
                 cred, tunnel, mark>>
  /\ UNCHANGED <<running, configVars, loopVars, attached_filter, little_endian, bpfVars>>

(***************************************************************************)
(* if (mark != MARK_UNSET && setsockopt(rawsock, SOL_SOCKET, SO_MARK, ...) *)
(*     < 0) logmsg(ERROR);  tunnel->write_fd6 = rawsock;                   *)
(***************************************************************************)
SetMark ==
  /\ cpc = "mark"
  /\ IF mark # MARK_UNSET
       THEN /\ cfg_calls' = Append(cfg_calls, "setsockopt_mark")
            /\ \/ StepFails("setsockopt_mark")
               \/ UNCHANGED failed_steps
       ELSE UNCHANGED <<cfg_calls, failed_steps>>
  /\ tunnel' = [tunnel EXCEPT !.write_fd6 = tunnel.rawsock]
  /\ cpc' = "ring"
  /\ UNCHANGED <<caller, v4_addr, v6_addr, exit_status, clat6_result, fail_cause,
                 cred, mark>>
  /\ UNCHANGED <<running, configVars, loopVars, attached_filter, little_endian, bpfVars>>

\* (mutant) the result of ring_create not looked at
after_ring_create_ignored(fd) == "opened"

\* if (tunnel->read_fd6 < 0) exit(1); otherwise open_sockets returns
after_ring_create(fd) == IF fd < 0 THEN "exited" ELSE "opened"

(***************************************************************************)
(* tunnel->read_fd6 = ring_create(tunnel);                                 *)
(* if (tunnel->read_fd6 < 0) exit(1);                                      *)
(***************************************************************************)
RingCreate ==
  /\ cpc = "ring"
  /\ cfg_calls' = Append(cfg_calls, "ring_create")
  /\ \E fd \in RingFds :
       /\ tunnel' = [tunnel EXCEPT !.read_fd6 = fd]
       /\ failed_steps' = IF fd < 0 THEN failed_steps \cup {"ring_create"} ELSE failed_steps
       /\ fail_cause' = IF fd < 0 THEN "ring_create" ELSE fail_cause
       /\ cpc' = after_ring_create(fd)
       /\ exit_status' = IF after_ring_create(fd) = "exited" THEN 1 ELSE exit_status
  /\ UNCHANGED <<caller, v4_addr, v6_addr, clat6_result, cred, mark>>
  /\ UNCHANGED <<running, configVars, loopVars, attached_filter, little_endian, bpfVars>>

\* the state the process starts in: nothing configured, root, no socket
InitStartup ==
  /\ running = 1
  /\ mtu = 0
  /\ ipv4mtu = 0
  /\ ipv4_local_subnet = <<0, 0, 0, 0>>
  /\ ipv6_local_subnet = <<0, 0, 0, 0, 0, 0, 0, 0, 0, 0, 0, 0, 0, 0, 0, 0>>
  /\ little_endian = TRUE
  /\ attached_filter = <<>>
  /\ InitLoop
  /\ uplink_ip = NoAddr
  /\ InitCallIdle
  /\ InitFilterIdle
  /\ cred = RootCred
  /\ tunnel = NoSockets
  /\ mark \in Marks
  /\ failed_steps = {}

NextStartup ==
  \/ CallDropRoot
  \/ SetGroups
  \/ SetKeepCaps
  \/ SetResGid
  \/ SetResUid
  \/ set_capability
  \/ CallOpenSockets
  \/ RawSocket
  \/ DisableChecksum
  \/ SetMark
  \/ RingCreate

SpecStartup == InitStartup /\ [][NextStartup]_vars

(***************************************************************************)
(*                       Properties of the classifier                      *)
(***************************************************************************)

\* word i (from 0) of the packet's destination address is there and equals
\* word i of the session address
WordMatches(i) ==
  /\ Len(packet) >= 24 + 4 * i + 4
  /\ SubSeq(packet, 24 + 4 * i + 1, 24 + 4 * i + 4)
       = SubSeq(ipv6_local_subnet, 4 * i + 1, 4 * i + 4)

\* the first word that does not match, 4 when all do
FirstMiss ==
  IF \A i \in 0..3 : WordMatches(i) THEN 4
  ELSE CHOOSE i \in 0..3 : ~WordMatches(i) /\ \A j \in 0..(i - 1) : WordMatches(j)

\* C9: the program returns PACKETLEN exactly when the four words at offsets
\* 24, 28, 32 and 36 equal those of the session address, and 0 otherwise;
\* a comparison that fails jumps onto the final "return 0", and the words
\* examined are those up to the first that does not match, none later.
C9_FilterAcceptsOwnAddress ==
  /\ [](bpf_ret # -1 =>
          /\ bpf_ret \in {0, PACKETLEN}
          /\ bpf_ret = PACKETLEN <=> \A i \in 0..3 : WordMatches(i))
  /\ [](bpf_ret = PACKETLEN => bpf_loads = <<24, 28, 32, 36>>)
  /\ [](bpf_ret = 0 =>
          bpf_loads = [k \in 1..(FirstMiss + 1) |-> 24 + 4 * (k - 1)])
  /\ [][(bpf_pc' # bpf_pc /\ Insn.code = "JEQ_K" /\ bpf_A # Insn.k) =>
          /\ bpf_pc' = Len(attached_filter) - 1
          /\ attached_filter[bpf_pc' + 1] = BPF_STMT("RET_K", 0)]_vars

\* C9 witness: a whole packet that differs from the session address in its
\* last byte alone (offset 39) has been rejected.
C9_Witness ==
  /\ bpf_ret = 0
  /\ Len(packet) >= 40
  /\ SubSeq(packet, 25, 40) = FlipByte(ipv6_local_subnet, 16)

(***************************************************************************)
(*                      Properties of the configurator                     *)
(***************************************************************************)

\* the primitives this call has invoked
Called(name) == \E k \in 1..Len(cfg_calls) : cfg_calls[k] = name

FilterFailures == {"attach", "bind"}

\* C6 (as claimed): a failure to install the kernel filter during
\* configure_interface does not terminate the process; only failures of the
\* configuration loading, of the IPv4 address assignment or interface-up,
\* and of the IPv6 address resolution terminate it.
C6_FilterFailureRecoverable ==
  /\ (caller = "configure_interface" /\ fail_cause \in FilterFailures) => exit_status = -1
  /\ exit_status # -1 =>
       fail_cause \in {"read_config", "v4_parse", "v4_select", "add_address",
                       "if_up", "v6_parse", "v6_query"}

\* C6 (amended): when the classifier attach or the bind fails,
\* configure_clat_ipv6_address returns 0 to its caller without terminating
\* the process; configure_interface, when it is the caller, then exits with
\* status 1, while another caller goes on with the process alive.  The
\* process exits only from configure_interface, only with status 1, and the
\* failure behind it is one of: configuration loading, IPv4 address
\* selection or assignment, interface-up, IPv6 resolution, filter install.
C6_FilterFailureFatalAtBoot ==
  /\ []((cpc = "clat6_ret" /\ fail_cause \in FilterFailures) =>
          (clat6_result = 0 /\ exit_status = -1))
  /\ [][(cpc = "clat6_ret" /\ fail_cause \in FilterFailures /\ cpc' # cpc) =>
          IF caller = "configure_interface"
            THEN cpc' = "exited" /\ exit_status' = 1
            ELSE cpc' = "done" /\ exit_status' = -1]_vars
  /\ [](exit_status # -1 =>
          /\ exit_status = 1
          /\ cpc = "exited"
          /\ caller = "configure_interface"
          /\ fail_cause \in {"read_config", "v4_parse", "v4_select", "add_address",
                             "if_up", "v6_parse", "v6_query"} \cup FilterFailures)

\* C6 witness: configure_interface has exited because the bind failed.
C6_Witness ==
  /\ cpc = "exited"
  /\ caller = "configure_interface"
  /\ fail_cause = "bind"
  /\ clat6_result = 0
  /\ exit_status = 1

\* C7 (as claimed): after the MTU normalization, whatever read_config
\* supplied and getifmtu returned, 1280 <= mtu <= MAXMTU and
\* 0 < ipv4mtu <= mtu - 28.
C7_MtuInRange ==
  cpc = "tun_select" =>
    /\ IPV6_MIN_MTU <= mtu
    /\ mtu <= MAXMTU
    /\ 0 < ipv4mtu
    /\ ipv4mtu <= mtu - MTU_DELTA

\* C8 (as claimed): the normalization applied again to the normalized mtu
\* and ipv4mtu, with any probe result, changes neither.
C8_NormalizeIdempotent ==
  cpc = "tun_select" =>
    \A probe \in ProbeMtus :
      /\ normalize_mtu(mtu, probe) = mtu
      /\ normalize_ipv4mtu(ipv4mtu, normalize_mtu(mtu, probe)) = ipv4mtu

\* the failures of configure_tun_ip before the interface is brought up
V4Failures == {"v4_parse", "v4_select", "add_address"}

\* C10: if_up is invoked only right after an add_address that succeeded;
\* when the literal does not parse, no address is free or add_address
\* fails, the process has exited with status 1 and if_up was not invoked;
\* with an explicit literal config_select_ipv4_address is never consulted.
C10_AddressBeforeUp ==
  /\ \A k \in 1..Len(cfg_calls) :
       cfg_calls[k] = "if_up" =>
         /\ k > 1
         /\ cfg_calls[k - 1] = "add_address"
         /\ fail_cause \notin V4Failures
  /\ fail_cause \in V4Failures =>
       /\ cpc = "exited"
       /\ exit_status = 1
       /\ ~Called("if_up")
  /\ cpc = "tun_up" => (Called("add_address") /\ fail_cause = "none")
  /\ (caller = "configure_interface" /\ v4_addr # NoLiteral) =>
       ~Called("config_select_ipv4_address")
  /\ (caller = "configure_interface" /\ v4_addr = NoLiteral) =>
       ~Called("inet_pton4")

\* C10 witness: with an explicit literal, the interface has been brought up
\* after its address was assigned.
C10_Witness ==
  /\ caller = "configure_interface"
  /\ v4_addr # NoLiteral
  /\ cfg_calls = <<"read_config", "inet_pton4", "add_address", "if_up">>
  /\ cpc = "clat6_resolve"

(***************************************************************************)
(*          Properties of drop_root_but_keep_caps and open_sockets         *)
(***************************************************************************)

\* the system call made last in the current call
LastCall == cfg_calls[Len(cfg_calls)]

\* C11 (as claimed): drop_root_but_keep_caps returns only if every one of
\* its steps (setgroups, prctl, setresgid, setresuid, capset) succeeded; a
\* step that fails terminates the process with status 1 before any later
\* step runs.
C11_DropAllOrNothing ==
  caller = "drop_root_but_keep_caps" =>
    /\ cpc = "dropped" =>
         /\ failed_steps = {}
         /\ cred = [groups |-> ClatGroups, gid |-> "AID_CLAT", uid |-> "AID_CLAT",
                    keepcaps |-> TRUE, caps |-> ClatCaps]
    /\ failed_steps # {} =>
         /\ cpc = "exited"
         /\ exit_status = 1
         /\ failed_steps = {LastCall}

\* the failures open_sockets does not survive, and those it only logs
FatalSocketSteps == {"socket", "ring_create"}
LoggedSocketSteps == {"setsockopt_checksum", "setsockopt_mark"}

\* C12 (as claimed): in open_sockets a failure of socket creation, of
\* disabling the checksum, of applying the mark or of ring_create terminates
\* the process with status 1; open_sockets returns only when all of these
\* succeeded.
C12_AllSocketFailuresFatal ==
  caller = "open_sockets" =>
    /\ failed_steps # {} => (cpc = "exited" /\ exit_status = 1)
    /\ cpc = "opened" => failed_steps = {}

\* C12 (amended): in open_sockets a failure of socket creation or of
\* ring_create terminates the process with status 1, at once; a failure to
\* disable the checksum or to apply the mark (attempted only when a mark is
\* set) does not: open_sockets goes on, and returns whenever socket creation
\* and ring_create succeeded, with both descriptors stored.
C12_SocketAndRingFatal ==
  caller = "open_sockets" =>
    /\ failed_steps \cap FatalSocketSteps # {} =>
         /\ cpc = "exited"
         /\ exit_status = 1
         /\ LastCall \in failed_steps
         /\ fail_cause = LastCall
    /\ failed_steps \cap FatalSocketSteps = {} => (cpc # "exited" /\ exit_status = -1)
    /\ failed_steps \subseteq FatalSocketSteps \cup LoggedSocketSteps
    /\ mark = MARK_UNSET => ~Called("setsockopt_mark")
    /\ cpc = "opened" =>
         /\ failed_steps \subseteq LoggedSocketSteps
         /\ tunnel.write_fd6 = tunnel.rawsock
         /\ tunnel.write_fd6 >= 0
         /\ tunnel.read_fd6 >= 0
         /\ cfg_calls = IF mark # MARK_UNSET
                          THEN <<"socket", "setsockopt_checksum", "setsockopt_mark", "ring_create">>
                          ELSE <<"socket", "setsockopt_checksum", "ring_create">>

\* C12 witness: open_sockets has returned though neither the checksum could
\* be disabled nor the mark applied.
C12_Witness ==
  /\ caller = "open_sockets"
  /\ cpc = "opened"
  /\ failed_steps = LoggedSocketSteps
  /\ exit_status = -1

(***************************************************************************)
(*                       Properties of the relay loop                      *)
(***************************************************************************)

\* C1: when the read on the IPv4-facing descriptor returns zero bytes,
\* running becomes 0 and translate_packet is not invoked for that read; from
\* then on event_loop enters no readiness wait and reads no packet (it is in
\* the prefix check, at the loop condition, or has returned), and the next
\* check of the loop condition returns.
C1_ZeroReadStopsLoop ==
  /\ [][(zeroRead' /\ ~zeroRead) =>
          /\ running' = 0
          /\ pc' = "time"
          /\ translate_len' = -1
          /\ iter_calls' = Append(iter_calls, "read_packet")]_vars
  /\ [](zeroRead => running = 0 /\ pc \in {"time", "check", "while", "idle"})
  /\ [][(zeroRead /\ pc = "while" /\ pc' # pc) =>
          (pc' = "idle" /\ exit_cause' = "flag")]_vars

\* C1 witness: the loop has returned through its condition after a
\* zero-length read, no signal having arrived.
C1_Witness ==
  zeroRead /\ ~stopRan /\ pc = "idle" /\ exit_cause = "flag"

\* C2: when stop_loop runs while poll() is blocked, poll() returns EINTR,
\* nothing is logged for it, no descriptor is serviced in that iteration and
\* the next check of running returns; whenever stop_loop has run, event_loop
\* enters at most one further poll(), which lasts no longer than the idle
\* timeout, and (the loop being scheduled) returns.
C2_SignalStopsLoop ==
  /\ [][(pc = "poll" /\ interrupted /\ pc' # pc) =>
          /\ lastEvent' = "poll_eintr"
          /\ logged' = ""
          /\ pc' = "time"]_vars
  /\ [](interrupted /\ pc # "poll" => running = 0 /\ iter_calls = <<>>)
  /\ [][(stopRan /\ pc = "while" /\ pc' # pc) => pc' = "idle"]_vars
  /\ [](pollsAfterStop <= 1)
  /\ [][(pc = "poll" /\ pc' # pc) =>
          now' - now <= NO_TRAFFIC_INTERFACE_POLL_FREQUENCY]_vars
  /\ (stopRan /\ pc # "idle") ~> (pc = "idle")

\* C2 witness: the signal arrived during a blocked poll() and the loop has
\* returned without any read having stopped it.
C2_Witness ==
  interrupted /\ stopRan /\ ~zeroRead /\ pc = "idle" /\ exit_cause = "flag"

\* C3: event_loop returns only at the loop condition with running cleared
\* (by stop_loop or by a zero-length read) or at a prefix check that reports
\* a change; running changes only in stop_loop and in a zero-length read; a
\* poll() error, an error on the IPv6 descriptor, a negative read, a short
\* frame, a non-IPv4 frame or unexpected flags neither return nor change
\* running.
C3_OnlyThreeExits ==
  /\ [][running' # running => lastEvent' \in {"stop_loop", "read_zero"}]_vars
  /\ [](running = 0 => stopRan \/ zeroRead)
  /\ [][(pc # "idle" /\ pc' = "idle") =>
          \/ pc = "while" /\ running = 0 /\ exit_cause' = "flag"
          \/ /\ pc = "check"
             /\ ipv6_address_changed(uplink_ip, ipv6_local_subnet) # 0
             /\ exit_cause' = "prefix"]_vars
  /\ [][(pc' # pc /\ lastEvent' \in {"poll_error", "poll_eintr", "recv_peek", "read_neg",
                                      "read_short", "read_nonip", "read_flags"}) =>
          (running' = running /\ pc' # "idle")]_vars

\* C3 witness: a negative read has just been ignored and the loop runs on.
C3_Witness ==
  lastEvent = "read_neg" /\ logged # "" /\ running = 1 /\ pc = "time"

\* C4 (as claimed): after a prefix check that reported "not changed", no
\* further check is made before INTERFACE_POLL_FREQUENCY seconds have passed
\* since that check.
C4_CheckOncePerInterval ==
  [][(pc = "check" /\ pc' # pc /\ lastCheckAt >= 0) =>
       now >= lastCheckAt + INTERFACE_POLL_FREQUENCY]_vars

\* C5: when the prefix check reports a change, event_loop returns in that
\* step (no further poll(), no further read) and running keeps its value.
C5_PrefixChangeReturns ==
  [][(pc = "check" /\ pc' # pc /\ ipv6_address_changed(uplink_ip, ipv6_local_subnet) # 0) =>
       /\ pc' = "idle"
       /\ exit_cause' = "prefix"
       /\ running' = running
       /\ iter_calls' = iter_calls
       /\ pollsAfterStop' = pollsAfterStop]_vars

\* C5 witness: the loop has returned on a prefix change with running still 1.
C5_Witness ==
  pc = "idle" /\ exit_cause = "prefix" /\ running = 1 /\ lastEvent = "check_changed"

\* C13 (as claimed): running is written only by stop_loop.
C13_RunningOnlyFromHandler ==
  [][running' # running => lastEvent' = "stop_loop"]_vars

\* C13 (amended): running is written in two places only, stop_loop and the
\* zero-length read of read_packet, and both set it to 0; stop_loop touches
\* nothing else of the program's state; every other step of event_loop and
\* every other branch of read_packet leave running as it is.
C13_RunningWriters ==
  /\ [][running' # running =>
          /\ running' = 0
          /\ \/ /\ lastEvent' = "stop_loop"
                /\ UNCHANGED <<configVars, pc, last_interface_poll, revents,
                               iter_calls, translate_len, read_in, attached_filter>>
             \/ /\ pc = "fd4"
                /\ revents[2] # {}
                /\ read_in'.readlen = 0]_vars
  /\ [][(pc' # pc /\ ~(pc = "fd4" /\ read_in' # NoRead /\ read_in'.readlen = 0)) =>
          running' = running]_vars
  /\ [][(stopRan' /\ ~stopRan) =>
          /\ running' = 0
          /\ UNCHANGED <<configVars, pc, last_interface_poll, revents, iter_calls,
                         translate_len, read_in, attached_filter, zeroRead>>]_vars

\* C13 witness: running has just been cleared by read_packet, no signal
\* having arrived.
C13_Witness ==
  /\ running = 0
  /\ ~stopRan
  /\ pc = "time"
  /\ read_in # NoRead
  /\ read_in.readlen = 0

\* the number of times translate_packet was invoked in this iteration
Translations == Cardinality({k \in 1..Len(iter_calls) : iter_calls[k] = "translate_packet"})

\* C14: read_packet invokes translate_packet exactly once, with the length
\* read less the header size, when the read returned at least a whole frame
\* header whose protocol tag is IPv4 (bytes 08 00), whatever the flags; in
\* every other case it is not invoked; and read_packet changes running
\* exactly when the read returned 0.
C14_TranslateIffIpv4Frame ==
  /\ [](read_in # NoRead =>
          IF read_in.readlen >= TUN_PI_SIZE /\ read_in.hdr.proto = <<8, 0>>
            THEN /\ Translations = 1
                 /\ translate_len = read_in.readlen - TUN_PI_SIZE
                 /\ iter_calls[Len(iter_calls)] = "translate_packet"
            ELSE /\ Translations = 0
                 /\ translate_len = -1)
  /\ [][(pc = "fd4" /\ pc' # pc /\ read_in' # NoRead) =>
          /\ running' # running <=> (read_in'.readlen = 0 /\ running # 0)
          /\ read_in'.readlen = 0 => running' = 0]_vars
  /\ [][(pc = "fd4" /\ pc' # pc /\ read_in' = NoRead) =>
          (iter_calls' = iter_calls /\ running' = running)]_vars

\* C14 witness: a whole IPv4 frame with unexpected flags has been handed to
\* translate_packet.
C14_Witness ==
  /\ read_in # NoRead
  /\ read_in.readlen = TUN_PI_SIZE + 20
  /\ read_in.hdr.flags = 1
  /\ read_in.hdr.proto = <<8, 0>>
  /\ translate_len = 20
  /\ running = 1

\* the uplink's address has the /64 prefix of the stored synthetic address
SamePrefix ==
  /\ uplink_ip # NoAddr
  /\ \A j \in 1..8 : uplink_ip[j] = ipv6_local_subnet[j]

\* C15: the prefix check says "changed" when no address can be queried on
\* the uplink and when the queried address's /64 prefix differs from that of
\* the stored synthetic address, and "not changed" when the prefixes are
\* identical; it leaves the stored configuration and running as they are.
C15_PrefixChangeDetection ==
  [][(pc = "check" /\ pc' # pc) =>
       /\ uplink_ip = NoAddr => lastEvent' = "check_changed"
       /\ (uplink_ip # NoAddr /\ ~SamePrefix) => lastEvent' = "check_changed"
       /\ SamePrefix => (lastEvent' = "check_same" /\ pc' = "while")
       /\ lastEvent' \in {"check_changed", "check_same"}
       /\ UNCHANGED <<running, configVars, attached_filter>>]_vars

\* C15 witness: with no address on the uplink the check has just said
\* "changed".
C15_Witness ==
  /\ uplink_ip = NoAddr
  /\ lastEvent = "check_changed"
  /\ logged = "Unable to find an IPv6 address on interface"
  /\ exit_cause = "prefix"

\* C16: from the entry of event_loop to its return, whatever the descriptors
\* report, the reads return and the prefix checks find, the stored mtu,
\* ipv4mtu, IPv4 address and IPv6 address keep their values, the attached
\* classifier stays, and no primitive of the configurator is invoked.
C16_LoopLeavesConfigAlone ==
  [][(pc # "idle" \/ pc' # "idle") =>
       UNCHANGED <<mtu, ipv4mtu, ipv4_local_subnet, ipv6_local_subnet,
                   attached_filter, cfg_calls, cpc, tunnel, cred>>]_vars

\* C16 witness: the loop has serviced descriptors, found the prefix of the
\* uplink changed and returned, the session still configured for P1.
C16_Witness ==
  /\ pc = "idle"
  /\ exit_cause = "prefix"
  /\ uplink_ip = P2 \o IidB
  /\ ipv6_local_subnet = P1 \o IidA
  /\ revents # <<{}, {}>>
  /\ cfg_calls = <<>>

\* the calls of an iteration other than translate_packet
NotTranslate(c) == c # "translate_packet"
\* what an iteration has to invoke for the events rv0 on the IPv6-ingress
\* descriptor and rv1 on the IPv4-ingress descriptor, in order
ExpectedCalls(rv0, rv1) ==
  (IF POLLIN \in rv0 THEN <<"ring_read">> ELSE <<>>)
    \o (IF rv0 \ {POLLIN} # {} THEN <<"recv_peek">> ELSE <<>>)
    \o (IF rv1 # {} THEN <<"read_packet">> ELSE <<>>)

\* C19: in an iteration whose poll() succeeded, ring_read is invoked when
\* the IPv6-ingress descriptor is read-ready, then one peek recv when it
\* reports any other bit, then read_packet once when the IPv4-ingress
\* descriptor reports any event, each at most once and in this order, and
\* the loop goes on to the time check; in an iteration whose poll() failed
\* none of them is invoked.
C19_ServiceOrder ==
  /\ [][(pc = "poll" /\ pc' # pc) =>
          /\ iter_calls' = <<>>
          /\ lastEvent' \in {"poll_ok", "poll_eintr", "poll_error"}
          /\ pc' = IF lastEvent' = "poll_ok" THEN "ring" ELSE "time"]_vars
  /\ [](pc = "ring" => iter_calls = <<>>)
  /\ [](pc = "peek" => iter_calls = ExpectedCalls(revents[1] \cap {POLLIN}, {}))
  /\ [](pc = "fd4" => iter_calls = ExpectedCalls(revents[1], {}))
  /\ [][(pc = "fd4" /\ pc' # pc) =>
          /\ pc' = "time"
          /\ SelectSeq(iter_calls', NotTranslate) = ExpectedCalls(revents[1], revents[2])]_vars
  /\ [][(pc \in {"ring", "peek", "fd4"} /\ pc' # pc) => revents' = revents]_vars

\* C19 witness: both descriptors reported an error, the IPv6-ingress one
\* data as well: ring_read, the peek and read_packet were invoked.
C19_Witness ==
  /\ pc = "time"
  /\ revents = <<{POLLIN, POLLERR}, {POLLERR}>>
  /\ SelectSeq(iter_calls, NotTranslate) = <<"ring_read", "recv_peek", "read_packet">>

\* C20: running starts at 1 and only ever goes to 0 (by stop_loop or a
\* zero-length read), never back; when event_loop is entered with running
\* already 0 it returns at the loop condition, with no poll(), no read, no
\* prefix check and no time spent.
C20_RunningMonotonic ==
  /\ []((~stopRan /\ ~zeroRead) => running = 1)
  /\ [](running \in {0, 1})
  /\ [][running = 0 => running' = 0]_vars
  /\ []((stopRan \/ zeroRead) => running = 0)
  /\ [](entered_stopped =>
          /\ running = 0
          /\ pc \in {"while", "idle"}
          /\ iter_calls = <<>>
          /\ read_in = NoRead
          /\ lastCheckAt = -1
          /\ now = last_interface_poll
          /\ (pc = "idle" => exit_cause = "flag"))
  /\ [][(entered_stopped /\ pc = "while" /\ pc' # pc) =>
          (pc' = "idle" /\ lastEvent' = "return")]_vars

\* C20 witness: event_loop, entered again after an earlier run with running
\* cleared meanwhile, has returned at once.
C20_Witness ==
  /\ entered_stopped
  /\ pc = "idle"
  /\ exit_cause = "flag"
  /\ lastEvent = "return"
  /\ now > 0

(***************************************************************************)
(*     Properties of configure_clat_ipv6_address, configure_packet_socket  *)
(***************************************************************************)

\* the calls made by configure_clat_ipv6_address in the current call: those
\* from the resolution on
ResolveCalls == {"inet_pton6", "getinterface_ip"}
Clat6Calls ==
  IF \E k \in 1..Len(cfg_calls) : cfg_calls[k] \in ResolveCalls
    THEN SubSeq(cfg_calls,
                CHOOSE k \in 1..Len(cfg_calls) :
                  /\ cfg_calls[k] \in ResolveCalls
                  /\ \A j \in 1..(k - 1) : cfg_calls[j] \notin ResolveCalls,
                Len(cfg_calls))
    ELSE <<>>

IsPrefix(s, t) == Len(s) <= Len(t) /\ s = SubSeq(t, 1, Len(s))

\* the address an explicit literal stands for (NoAddr: not a valid literal)
LiteralAddr ==
  CASE v6_addr = "2001:d38:1::464" -> P1 \o IidA
    [] v6_addr = "2001:d38:2::464" -> P2 \o IidA
    [] OTHER -> NoAddr

\* the attached classifier compares the four words of the stored address
FilterIsForStoredAddress ==
  /\ Len(attached_filter) = 10
  /\ \A i \in 0..3 :
       attached_filter[2 * i + 2].k = be32(SubSeq(ipv6_local_subnet, 4 * i + 1, 4 * i + 4))

\* C17: configure_clat_ipv6_address resolves the address, then registers it
\* with add_anycast_address, then installs the classifier, in this order,
\* and the classifier installed is the one for the address resolved in this
\* call; when the resolution fails (a literal that is not valid, no address
\* on the uplink) it returns 0 with neither of the two invoked and the
\* stored address as it was.
C17_ResolveAliasFilterOrder ==
  /\ [](IsPrefix(Clat6Calls,
                 <<IF v6_addr # NoLiteral THEN "inet_pton6" ELSE "getinterface_ip",
                   "add_anycast_address", "attach_filter", "bind">>))
  /\ [][(cpc = "clat6_resolve" /\ cpc' # cpc) =>
          IF (IF v6_addr # NoLiteral THEN LiteralAddr = NoAddr ELSE uplink_ip = NoAddr)
            THEN /\ cpc' = "clat6_ret"
                 /\ clat6_result' = 0
                 /\ ipv6_local_subnet' = ipv6_local_subnet
                 /\ attached_filter' = attached_filter
                 /\ Len(Clat6Calls') = 1
            ELSE /\ cpc' = "clat6_anycast"
                 /\ ipv6_local_subnet' = IF v6_addr # NoLiteral THEN LiteralAddr
                                         ELSE config_generate_local_ipv6_subnet(uplink_ip)]_vars
  /\ [][(cpc \in {"clat6_anycast", "attach", "bind"}) =>
          (ipv6_local_subnet' = ipv6_local_subnet)]_vars
  /\ [](fail_cause \in {"v6_parse", "v6_query"} =>
          /\ clat6_result = 0
          /\ Len(Clat6Calls) = 1)
  /\ [][(cpc = "attach" /\ cpc' = "bind") =>
          /\ FilterIsForStoredAddress'
          /\ Len(Clat6Calls') = 3]_vars
  /\ [](clat6_result = 1 => (Len(Clat6Calls) = 4 /\ FilterIsForStoredAddress))

\* C17 witness: a reconfiguration with a literal that is not valid has
\* returned 0, the session keeping its address and classifier.
C17_Witness ==
  /\ caller = "reconfigure"
  /\ cpc = "done"
  /\ fail_cause = "v6_parse"
  /\ clat6_result = 0
  /\ cfg_calls = <<"inet_pton6">>
  /\ ipv6_local_subnet \in ClatAddrs
  /\ FilterIsForStoredAddress

\* C18: configure_packet_socket returns 1 only when the attach and then the
\* bind succeeded; when the attach fails it returns 0 and bind is not
\* attempted; when the bind fails it returns 0; it never exits the process.
C18_PacketSocketResult ==
  /\ [](clat6_result = 1 =>
          /\ fail_cause = "none"
          /\ Len(cfg_calls) >= 2
          /\ SubSeq(cfg_calls, Len(cfg_calls) - 1, Len(cfg_calls)) = <<"attach_filter", "bind">>)
  /\ [](fail_cause = "attach" =>
          /\ clat6_result = 0
          /\ ~Called("bind")
          /\ LastCall = "attach_filter")
  /\ [](fail_cause = "bind" => (clat6_result = 0 /\ LastCall = "bind"))
  /\ [][(cpc \in {"attach", "bind"} /\ cpc' # cpc) =>
          /\ exit_status' = -1
          /\ cpc' \in {"bind", "clat6_ret"}
          /\ (cpc' = "clat6_ret" => clat6_result' \in {0, 1})]_vars
  /\ [][(cpc = "attach" /\ cpc' # cpc) =>
          \/ cpc' = "bind" /\ fail_cause' = "none" /\ clat6_result' = -1
          \/ /\ cpc' = "clat6_ret"
             /\ fail_cause' = "attach"
             /\ attached_filter' = attached_filter]_vars

\* C18 witness: the attach has failed during a reconfiguration and
\* configure_packet_socket has returned 0 without binding, the process alive.
C18_Witness ==
  /\ caller = "reconfigure"
  /\ cpc = "clat6_ret"
  /\ fail_cause = "attach"
  /\ clat6_result = 0
  /\ ~Called("bind")
  /\ exit_status = -1

====
